---- MODULE Spec2Model ----
(***************************************************************************)
(* Credit portfolio model: the simulation engine of src/src/portfolio.rs,  *)
(* the borrower factor model and rating migration of src/src/borrower.rs,  *)
(* the risk group of src/src/risk_group.rs and the exposure of             *)
(* src/src/exposure.rs.                                                    *)
(*                                                                         *)
(* Numbers.  An f64 v is modelled by the integer 100 * v on a scaled-down  *)
(* binary floating-point grid: results are rounded to the nearest          *)
(* hundredth (the scaled-down exponent range: 0.01 * 0.01 underflows to    *)
(* 0) and to MantBits significant bits (the scaled-down mantissa), ties    *)
(* to even, and there are the three non-finite values NaN, PosInf and      *)
(* NegInf.  So 128 is 1.28 and One is 1.0.  A usize is an integer modulo   *)
(* MaxUsize + 1, a u128 an integer modulo 2^RngBits.                       *)
(***************************************************************************)
EXTENDS Integers, Sequences, FiniteSets, TLC

\* ------------------------------------------------------------- bounds
\* Significant bits of the scaled-down f64.
MantBits == 14
\* The scaled-down usize::MAX.
MaxUsize == 7
\* Largest num_trials passed to simulate.
MaxTrials == 3
\* Largest seed passed to simulate.
MaxSeed == 1
\* State bits of the scaled-down Pcg64.
RngBits == 6
\* Most add_exposure calls made on one borrower.
MaxExposures == 3
\* Largest ordinary chunk_size passed to simulate (MaxUsize is passed too).
MaxChunk == 2
\* Most rating classes of a borrower handed to migration and add_exposure.
MaxRatings == 3
\* Most migration calls made on one borrower.
MaxCalls == 2
\* add_risk_group calls on one portfolio
MaxGroups == 2

\* ------------------------------------------------------------- f64
\* 1.0
One == 10^2
\* The f64 of a small whole number.
F(n) == n * One

NaN == 2^29
PosInf == 2^28
NegInf == 0 - 2^28

IsNaN(x) == x = NaN
IsInf(x) == x = PosInf \/ x = NegInf
IsFinite(x) == ~IsNaN(x) /\ ~IsInf(x)

Abs(x) == IF x < 0 THEN 0 - x ELSE x
Sgn(x) == IF x < 0 THEN 0 - 1 ELSE IF x > 0 THEN 1 ELSE 0

RECURSIVE BitLen(_)
BitLen(x) == IF x = 0 THEN 0 ELSE 1 + BitLen(x \div 2)

\* Round the exact value x to MantBits significant bits: nearest, ties to
\* even.
Fl(x) ==
    LET a == Abs(x)
        e == BitLen(a) - MantBits
    IN  IF e <= 0 THEN x
        ELSE LET q == 2^e
                 m == a \div q
                 r == a % q
                 up == (2 * r > q) \/ (2 * r = q /\ m % 2 = 1)
             IN  Sgn(x) * (IF up THEN m + 1 ELSE m) * q

\* The integer nearest to a / b, ties to even (b # 0).
RoundDiv(a, b) ==
    LET n == Abs(a)
        d == Abs(b)
        q == n \div d
        r == n % d
        up == (2 * r > d) \/ (2 * r = d /\ q % 2 = 1)
    IN  Sgn(a) * Sgn(b) * (IF up THEN q + 1 ELSE q)

XNeg(a) == IF IsNaN(a) THEN NaN ELSE 0 - a

\* f64 addition.
XAdd(a, b) ==
    IF IsNaN(a) \/ IsNaN(b) THEN NaN
    ELSE IF IsInf(a) /\ IsInf(b) THEN (IF a = b THEN a ELSE NaN)
    ELSE IF IsInf(a) THEN a
    ELSE IF IsInf(b) THEN b
    ELSE Fl(a + b)

\* f64 subtraction.
XSub(a, b) == XAdd(a, XNeg(b))

\* f64 multiplication.
XMul(a, b) ==
    IF IsNaN(a) \/ IsNaN(b) THEN NaN
    ELSE IF IsInf(a) \/ IsInf(b)
         THEN (IF a = 0 \/ b = 0 THEN NaN
               ELSE IF Sgn(a) * Sgn(b) > 0 THEN PosInf ELSE NegInf)
    ELSE Fl(RoundDiv(a * b, One))

\* f64 division.
XDiv(a, b) ==
    IF IsNaN(a) \/ IsNaN(b) THEN NaN
    ELSE IF IsInf(a) THEN (IF IsInf(b) THEN NaN
                           ELSE IF Sgn(a) * (IF b < 0 THEN 0 - 1 ELSE 1) > 0
                                THEN PosInf ELSE NegInf)
    ELSE IF IsInf(b) THEN 0
    ELSE IF b = 0 THEN (IF a = 0 THEN NaN ELSE IF a > 0 THEN PosInf ELSE NegInf)
    ELSE Fl(RoundDiv(a * One, b))

RECURSIVE FloorSqrt(_, _, _)
\* The largest r in lo..hi with r * r <= x (lo * lo <= x).
FloorSqrt(x, lo, hi) ==
    IF lo >= hi THEN lo
    ELSE LET mid == (lo + hi + 1) \div 2
         IN  IF mid * mid <= x THEN FloorSqrt(x, mid, hi)
             ELSE FloorSqrt(x, lo, mid - 1)

\* f64::sqrt.
XSqrt(a) ==
    IF IsNaN(a) \/ a < 0 THEN NaN
    ELSE IF a = PosInf THEN PosInf
    ELSE LET x == a * One
             f == FloorSqrt(x, 0, 2^15)
         IN  Fl(IF x - f * f > (f + 1) * (f + 1) - x THEN f + 1 ELSE f)

\* partial_cmp with its operands exchanged (z.partial_cmp(a)).
partial_cmp_swapped(a, b) ==
    IF IsNaN(a) \/ IsNaN(b) THEN "None"
    ELSE IF b < a THEN "Less"
    ELSE IF b > a THEN "Greater"
    ELSE "Equal"

\* f64::partial_cmp: None when either side is NaN.
partial_cmp(a, b) ==
    IF IsNaN(a) \/ IsNaN(b) THEN "None"
    ELSE IF a < b THEN "Less"
    ELSE IF a > b THEN "Greater"
    ELSE "Equal"

\* usize as f64.
ToF64(n) == Fl(n * One)

\* ------------------------------------------------------------- vectors
RECURSIVE SumSeq(_)
\* Iterator::sum / Array1::sum over f64: a left fold from 0.0.
SumSeq(s) == IF s = <<>> THEN 0
             ELSE XAdd(SumSeq(SubSeq(s, 1, Len(s) - 1)), s[Len(s)])

\* ndarray dot product of two vectors of equal length.
Dot(a, b) == SumSeq([i \in 1..Len(a) |-> XMul(a[i], b[i])])

\* ndarray matrix-vector product; a matrix is a sequence of rows.
MatVec(m, v) == [i \in 1..Len(m) |-> Dot(m[i], v)]

\* Array1 += &Array1 (element-wise).
VecAdd(a, b) == [i \in 1..Len(a) |-> XAdd(a[i], b[i])]

\* Array1::zeros(n) / vec![0_f64; n].
Zeros(n) == [i \in 1..n |-> 0]

\* ------------------------------------------------------------- build
\* What the toolchain decides, not the source: whether usize arithmetic is
\* overflow-checked (debug profile) or wraps (release profile), and which
\* slice::binary_search_by the standard library ships ("early" returns at the
\* first Equal probe, "branchless" narrows to one probe position first).
VARIABLE build

Builds == [overflow_checks : BOOLEAN, search : {"early", "branchless"}]

\* ------------------------------------------------------------- exposure
\* Exposure::new
ExposureNew(valuation) == [valuation |-> valuation]

\* Exposure::num_values
num_values(exposure) == Len(exposure.valuation)

\* Exposure::get_value (index is 0-based, as in the source)
get_value(exposure, index) == exposure.valuation[index + 1]

\* ------------------------------------------------------------- borrower
\* statrs Normal(0,1).inverse_cdf(p), for the cumulative probabilities the
\* model uses (multiples of 0.1).
InverseCdf(p) ==
    CASE p = 0 -> NegInf
      [] p = 10 -> 0 - 128
      [] p = 20 -> 0 - 84
      [] p = 30 -> 0 - 52
      [] p = 40 -> 0 - 25
      [] p = 50 -> 0
      [] p = 60 -> 25
      [] p = 70 -> 52
      [] p = 80 -> 84
      [] p = 90 -> 128
      [] OTHER -> PosInf

\* The scan of Borrower::new: cumulative probabilities.
CumP(p_mig) == [i \in 1..Len(p_mig) |-> SumSeq(SubSeq(p_mig, 1, i))]

\* The thresholds of Borrower::new: inverse_cdf of all but the last
\* cumulative probability.
CMig(p_mig) == [i \in 1..(Len(p_mig) - 1) |-> InverseCdf(CumP(p_mig)[i])]

\* Borrower::new
BorrowerNew(risk_factor_weights, rating, rho, eps, p_mig) ==
    [risk_factor_weights |-> risk_factor_weights,
     rating |-> rating,
     rho |-> rho,
     eps |-> eps,
     p_mig |-> p_mig,
     c_mig |-> CMig(p_mig),
     exposures |-> <<>>,
     value |-> 0,
     valuations |-> Zeros(Len(p_mig)),
     losses |-> Zeros(Len(p_mig)),
     norm |-> NaN,
     el |-> 0]

\* Borrower::expected_loss
BorrowerExpectedLoss(b) ==
    SumSeq([i \in 1..Len(b.p_mig) |-> XMul(b.p_mig[i], b.losses[i])])

\* add_exposure taking the current valuation before the exposure is added.
add_exposure_stale(b, exposure) ==
    IF Len(b.valuations) # Len(exposure.valuation)
    THEN [ok |-> FALSE, b |-> b]
    ELSE LET vals == [i \in 1..Len(b.valuations) |->
                         XAdd(b.valuations[i], exposure.valuation[i])]
             b1 == [b EXCEPT !.valuations = vals,
                             !.exposures = Append(b.exposures, exposure)]
         IN  IF b.rating >= Len(vals)
             THEN [ok |-> FALSE, b |-> b1]
             ELSE LET v == b.valuations[b.rating + 1]
                  IN  [ok |-> TRUE,
                       b |-> [b1 EXCEPT !.value = v,
                                        !.losses = [i \in 1..Len(vals) |->
                                                       XSub(v, vals[i])]]]

\* Borrower::add_exposure.  The result is [ok, b]: ok is FALSE when the call
\* panics, and b is the borrower as the panic leaves it (the length check
\* panics before any write; an out-of-range current rating panics after the
\* valuations are updated and the exposure is pushed).
add_exposure(b, exposure) ==
    IF Len(b.valuations) # num_values(exposure)
    THEN [ok |-> FALSE, b |-> b]
    ELSE LET vals == [i \in 1..Len(b.valuations) |->
                         XAdd(b.valuations[i], get_value(exposure, i - 1))]
             b1 == [b EXCEPT !.valuations = vals,
                             !.exposures = Append(b.exposures, exposure)]
         IN  IF b.rating >= Len(vals)
             THEN [ok |-> FALSE, b |-> b1]
             ELSE LET v == vals[b.rating + 1]
                      b2 == [b1 EXCEPT !.value = v,
                                       !.losses = [i \in 1..Len(vals) |->
                                                      XSub(v, vals[i])]]
                  IN  [ok |-> TRUE,
                       b |-> [b2 EXCEPT !.el = BorrowerExpectedLoss(b2)]]

\* Borrower::set_norm
BorrowerSetNorm(b, cov) ==
    [b EXCEPT !.norm = XSqrt(Dot(b.risk_factor_weights,
                                 MatVec(cov, b.risk_factor_weights)))]

\* Borrower::risk_factor
risk_factor(b, risk_factors) ==
    XDiv(Dot(risk_factors, b.risk_factor_weights), b.norm)

\* Borrower::asset_value
asset_value(b, y, e1, e2) ==
    XAdd(XMul(XSqrt(b.rho), y),
         XMul(XSqrt(XSub(One, b.rho)),
              XAdd(XMul(XSqrt(XSub(One, b.eps)), e1),
                   XMul(XSqrt(b.eps), e2))))

RECURSIVE SearchEarly(_, _, _, _)
\* slice::binary_search_by, the loop that returns at the first Equal probe.
\* s is the slice, z the value compared against, left..right the window.
\* The result is [ok, idx]: ok is FALSE when the comparator panics.
SearchEarly(s, z, left, right) ==
    IF left >= right THEN [ok |-> TRUE, idx |-> left]
    ELSE LET mid == left + ((right - left) \div 2)
             cmp == partial_cmp(s[mid + 1], z)
         IN  CASE cmp = "None" -> [ok |-> FALSE, idx |-> 0]
               [] cmp = "Less" -> SearchEarly(s, z, mid + 1, right)
               [] cmp = "Greater" -> SearchEarly(s, z, left, mid)
               [] OTHER -> [ok |-> TRUE, idx |-> mid]

RECURSIVE SearchNarrow(_, _, _, _)
\* The narrowing loop of the branchless slice::binary_search_by.
SearchNarrow(s, z, base, size) ==
    IF size <= 1 THEN [ok |-> TRUE, idx |-> base]
    ELSE LET half == size \div 2
             mid == base + half
             cmp == partial_cmp(s[mid + 1], z)
         IN  IF cmp = "None" THEN [ok |-> FALSE, idx |-> 0]
             ELSE SearchNarrow(s, z, IF cmp = "Greater" THEN base ELSE mid,
                               size - half)

\* slice::binary_search_by, branchless: narrow, then one last probe.
SearchBranchless(s, z) ==
    IF Len(s) = 0 THEN [ok |-> TRUE, idx |-> 0]
    ELSE LET n == SearchNarrow(s, z, 0, Len(s))
         IN  IF ~n.ok THEN n
             ELSE LET cmp == partial_cmp(s[n.idx + 1], z)
                  IN  CASE cmp = "None" -> [ok |-> FALSE, idx |-> 0]
                        [] cmp = "Less" -> [ok |-> TRUE, idx |-> n.idx + 1]
                        [] OTHER -> [ok |-> TRUE, idx |-> n.idx]

\* Borrower::migration: binary_search_by(|a| a.partial_cmp(&z).expect(..))
\* .unwrap_or_else(|i| i), so Ok(i) and Err(i) both give i.  The result is
\* [ok, idx]: ok is FALSE when the expect panics.
migration(b, z) ==
    IF build.search = "early" THEN SearchEarly(b.c_mig, z, 0, Len(b.c_mig))
    ELSE SearchBranchless(b.c_mig, z)

\* get_loss refusing the last rating class.
get_loss_short(b, index) ==
    IF index + 1 < Len(b.losses)
    THEN [ok |-> TRUE, loss |-> b.losses[index + 1]]
    ELSE [ok |-> FALSE, loss |-> 0]

\* Borrower::get_loss: [ok, loss]; ok is FALSE when the index is out of range.
get_loss(b, index) ==
    IF index < Len(b.losses) THEN [ok |-> TRUE, loss |-> b.losses[index + 1]]
    ELSE [ok |-> FALSE, loss |-> 0]

\* ------------------------------------------------------------- risk group
\* RiskGroup::new
RiskGroupNew == [borrower |-> <<>>]

\* RiskGroup::add_borrower
add_borrower(rg, b) == [rg EXCEPT !.borrower = Append(rg.borrower, b)]

\* RiskGroup::num_borrower
RiskGroupNumBorrower(rg) == Len(rg.borrower)

\* Borrower::set_norm panics in cov.dot(weights) when the weight vector's
\* length is not the covariance matrix's dimension.
SetNormPanics(rg, cov) ==
    \E i \in 1..Len(rg.borrower) :
        Len(rg.borrower[i].risk_factor_weights) # Len(cov)

\* RiskGroup::set_norm
RiskGroupSetNorm(rg, cov) ==
    [rg EXCEPT !.borrower = [i \in 1..Len(rg.borrower) |->
                                BorrowerSetNorm(rg.borrower[i], cov)]]

\* ------------------------------------------------------------- Pcg64
\* The generator is rand_pcg's Lcg128Xsl64 scaled down to RngBits state
\* bits: a linear congruential step with a per-stream odd increment, and an
\* output function folding the state's two halves.
Modulus == 2^RngBits
HalfModulus == 2^(RngBits \div 2)

\* Lcg128Xsl64::step
PcgStep(rng) ==
    [rng EXCEPT !.state = (rng.state * 5 + rng.increment) % Modulus]

\* Lcg128Xsl64::from_state_incr
PcgFromStateIncr(state, increment) ==
    PcgStep([state |-> (state + increment) % Modulus, increment |-> increment])

\* Pcg64::new(state, stream)
PcgNew(state, stream) ==
    PcgFromStateIncr(state % Modulus, (2 * stream + 1) % Modulus)

\* Pcg64::seed_from_u64(seed): the seed is expanded to a state and an odd
\* increment.
SeedFromU64(seed) ==
    PcgFromStateIncr((7 * seed + 3) % Modulus, (2 * (5 * seed + 1) + 1) % Modulus)

\* RngCore::next_u64: step, then output.  [rng, out]
NextU64(rng) ==
    LET r == PcgStep(rng)
    IN  [rng |-> r,
         out |-> ((r.state \div HalfModulus) + r.state) % HalfModulus]

\* Rng::gen::<u128>(): two next_u64, the second being the high half.
GenU128(rng) ==
    LET x == NextU64(rng)
        y == NextU64(x.rng)
    IN  [rng |-> y.rng, out |-> (y.out * HalfModulus + x.out) % Modulus]

\* StandardNormal.sample: one generator output mapped to a normal variate
\* (in hundredths).
NormalOf(u) ==
    <<0 - 200, 0 - 100, 0, 100, 200, 0, 0 - 100, 100>>[(u % 8) + 1]

\* nrm_gen.next(): [rng, out]
NextNormal(rng) ==
    LET n == NextU64(rng) IN [rng |-> n.rng, out |-> NormalOf(n.out)]

\* ------------------------------------------------------------- portfolio
\* cov.cholesky(UPLO::Lower) for a 1x1 or 2x2 matrix.
Cholesky(cov) ==
    IF Len(cov) = 1 THEN << <<XSqrt(cov[1][1])>> >>
    ELSE LET l11 == XSqrt(cov[1][1])
             l21 == XDiv(cov[2][1], l11)
             l22 == XSqrt(XSub(cov[2][2], XMul(l21, l21)))
         IN  << <<l11, 0>>, <<l21, l22>> >>

\* Portfolio::new
PortfolioNew(cov) ==
    [risk_factors |-> Len(cov[1]),
     cov |-> cov,
     lower |-> Cholesky(cov),
     risk_group |-> <<>>,
     num_borrower |-> 0]

\* add_risk_group appending the group as it was passed.
add_risk_group_unnormed(p, rg) ==
    [p EXCEPT !.num_borrower = p.num_borrower + RiskGroupNumBorrower(rg),
              !.risk_group = Append(p.risk_group, rg)]

\* Portfolio::add_risk_group
add_risk_group(p, rg) ==
    LET g == RiskGroupSetNorm(rg, p.cov)
    IN  [p EXCEPT !.num_borrower = p.num_borrower + RiskGroupNumBorrower(g),
                  !.risk_group = Append(p.risk_group, g)]

\* Portfolio::trial is stepped through a frame t:
\*   pc        "sys" (drawing the systematic factors), "group" (at the head of
\*             the risk-group loop), "borr" (at the head of the borrower loop),
\*             "return" or "panic"
\*   rng       the generator, n the systematic draws, rf = lower . n
\*   gi, bi    the 1-based positions of the two loops; e2 the group's draw
\*   index     the output index; out_borr the output vector
\*   log       every draw taken so far, [kind, g, b, v], in the order taken
\*   writes    how often each position of out_borr was written

\* Lines 64-68: take(risk_factors) draws, then rf = lower . n.
TrialSysStep(p, t) ==
    IF Len(t.n) < p.risk_factors
    THEN LET d == NextNormal(t.rng)
         IN  [t EXCEPT !.rng = d.rng,
                       !.n = Append(t.n, d.out),
                       !.log = Append(t.log, [kind |-> "sys", g |-> 0, b |-> 0,
                                              v |-> d.out])]
    ELSE [t EXCEPT !.rf = MatVec(p.lower, t.n), !.pc = "group", !.gi = 1]

\* The head of the risk-group loop with e2 drawn for the first group only and
\* kept for the groups after it.
TrialGroupStepShared(p, t) ==
    IF t.gi > Len(p.risk_group) THEN [t EXCEPT !.pc = "return"]
    ELSE IF t.gi > 1 THEN [t EXCEPT !.bi = 1, !.pc = "borr"]
    ELSE LET d == NextNormal(t.rng)
         IN  [t EXCEPT !.rng = d.rng, !.e2 = d.out, !.bi = 1, !.pc = "borr",
                       !.log = Append(t.log, [kind |-> "e2", g |-> t.gi,
                                              b |-> 0, v |-> d.out])]

\* Lines 72-74: the next risk group and its draw e2, or the end of the loop.
TrialGroupStep(p, t) ==
    IF t.gi > Len(p.risk_group) THEN [t EXCEPT !.pc = "return"]
    ELSE LET d == NextNormal(t.rng)
         IN  [t EXCEPT !.rng = d.rng, !.e2 = d.out, !.bi = 1, !.pc = "borr",
                       !.log = Append(t.log, [kind |-> "e2", g |-> t.gi,
                                              b |-> 0, v |-> d.out])]

\* Lines 76-93: the next borrower of the group (its draw e1, y, z, rating and
\* loss, the write to out_borr[index]), or the end of the inner loop.
TrialBorrStep(p, t) ==
    IF t.bi > Len(p.risk_group[t.gi].borrower)
    THEN [t EXCEPT !.gi = t.gi + 1, !.pc = "group"]
    ELSE LET borr == p.risk_group[t.gi].borrower[t.bi]
             d == NextNormal(t.rng)
             e1 == d.out
             y == risk_factor(borr, t.rf)
             z == asset_value(borr, y, e1, t.e2)
             rating == migration(borr, z)
             loss == get_loss(borr, rating.idx)
             t1 == [t EXCEPT !.rng = d.rng,
                             !.log = Append(t.log, [kind |-> "e1", g |-> t.gi,
                                                    b |-> t.bi, v |-> e1])]
         IN  IF ~rating.ok \/ ~loss.ok \/ t.index >= Len(t.out_borr)
             THEN [t1 EXCEPT !.pc = "panic"]
             ELSE [t1 EXCEPT !.out_borr[t.index + 1] = loss.loss,
                             !.writes[t.index + 1] = @ + 1,
                             !.index = t.index + 1,
                             !.bi = t.bi + 1]

\* One step of Portfolio::trial.
TrialStep(p, t) ==
    CASE t.pc = "sys" -> TrialSysStep(p, t)
      [] t.pc = "group" -> TrialGroupStep(p, t)
      [] t.pc = "borr" -> TrialBorrStep(p, t)
      [] OTHER -> t

\* The frame on entry to Portfolio::trial.
TrialEntry(p, rng) ==
    [pc |-> "sys", rng |-> rng, n |-> <<>>, rf |-> <<>>, gi |-> 0, bi |-> 0,
     e2 |-> 0, index |-> 0, out_borr |-> Zeros(p.num_borrower), log |-> <<>>,
     writes |-> Zeros(p.num_borrower)]

RECURSIVE TrialRun(_, _)
\* Portfolio::trial run from frame t until it returns or panics.
TrialRun(p, t) ==
    IF t.pc \in {"return", "panic"} THEN t ELSE TrialRun(p, TrialStep(p, t))

\* Portfolio::trial(rng)
trial(p, rng) == TrialRun(p, TrialEntry(p, rng))

\* ------------------------------------------------------------- simulate
VARIABLES tr, mg, bw, pb

\* The state of one Portfolio::simulate call.
\*   pf           the portfolio (read-only during the call)
\*   args         [num_trials, chunk_size, seed]
\*   pc           "entry", "streams" (deriving the stream identifiers), "par"
\*                (inside for_each), "divide", "returned" or "aborted"
\*   out          the per-trial total losses; out_writers[s] lists the chunks
\*                that wrote slot s, in order; draws[s] the normal draws the
\*                trial of slot s took
\*   out_borr     the shared accumulator guarded by the mutex
\*   lock         the chunk holding the mutex, 0 when free; lock_order the
\*                chunks in the order they acquired it
\*   num_chunks, base_rng, streams   as in the source
\*   chunks       the for_each items: chunk c owns slots lo..hi-1 (0-based),
\*                runs the trial of slot next, and is at pc "idle", "trials",
\*                "locked", "adding", "done" or "panicked"
\*   result       what simulate returned: [returned, out, el]
VARIABLES pf, args, pc, out, out_writers, draws, out_borr, lock, lock_order,
          num_chunks, base_rng, streams, chunks, result

simVars == <<pf, args, pc, out, out_writers, draws, out_borr, lock, lock_order,
             num_chunks, base_rng, streams, chunks, result>>

NoResult == [returned |-> FALSE, out |-> <<>>, el |-> <<>>]

\* usize addition: [ok, v]; ok is FALSE on overflow, v is the wrapped value.
UsizeAdd(a, b) == [ok |-> a + b <= MaxUsize, v |-> (a + b) % (MaxUsize + 1)]

\* usize subtraction: [ok, v]; ok is FALSE on underflow, v the wrapped value.
UsizeSub(a, b) == [ok |-> a >= b, v |-> (a - b + MaxUsize + 1) % (MaxUsize + 1)]

\* (num_trials + chunk_size - 1) / chunk_size in usize: [ok, v].
NumChunks(num_trials, chunk_size) ==
    LET s == UsizeAdd(num_trials, chunk_size)
        d == UsizeSub(s.v, 1)
    IN  [ok |-> s.ok /\ d.ok, v |-> d.v \div chunk_size]

\* The number of slices of out.par_chunks_mut(chunk_size): rayon's
\* div_round_up(len, chunk_size) = len / chunk_size + (len % chunk_size != 0).
ParChunksLen(len, chunk_size) ==
    (len \div chunk_size) + (IF len % chunk_size # 0 THEN 1 ELSE 0)

Min(a, b) == IF a < b THEN a ELSE b

\* The items of out.par_chunks_mut(chunk_size).zip(streams.par_iter()): the
\* zip is as long as the shorter side; item c owns slots lo..hi-1.
ZipItems(num_trials, chunk_size, nstreams) ==
    [c \in 1..Min(ParChunksLen(num_trials, chunk_size), nstreams) |->
        [pc |-> "idle",
         rng |-> [state |-> 0, increment |-> 0],
         loc_borr |-> <<>>,
         lo |-> (c - 1) * chunk_size,
         hi |-> Min(c * chunk_size, num_trials),
         next |-> (c - 1) * chunk_size,
         tmp |-> <<>>]]

\* The stream a chunk would get if streams were handed out in the order the
\* workers start.
ChunkStreamByStart(c) ==
    streams[Cardinality({d \in DOMAIN chunks : chunks[d].pc # "idle"}) + 1]

\* The stream zipped with chunk c.
ChunkStream(c) == streams[c]

\* Mutex::lock can be acquired.
MutexFree(holder) == holder = 0

\* for_each returning normally although an item panicked.
ForEachSwallow ==
    \A c \in DOMAIN chunks : chunks[c].pc \in {"done", "panicked"}

\* for_each returns normally: every item ran to its end.
ForEachDone == \A c \in DOMAIN chunks : chunks[c].pc = "done"

\* for_each unwinds: an item panicked and no item is still running.
ForEachPanicked ==
    /\ \E c \in DOMAIN chunks : chunks[c].pc = "panicked"
    /\ \A c \in DOMAIN chunks : chunks[c].pc \in {"idle", "done", "panicked"}

\* simulate, lines 103-110: the containers, num_chunks and the base generator.
SimulateEntry ==
    /\ pc = "entry"
    /\ LET nc == NumChunks(args.num_trials, args.chunk_size)
       IN  IF ~nc.ok /\ build.overflow_checks
           THEN /\ pc' = "aborted"
                /\ UNCHANGED <<out, out_writers, draws, out_borr, num_chunks,
                               base_rng>>
           ELSE /\ pc' = "streams"
                /\ out' = Zeros(args.num_trials)
                /\ out_writers' = [i \in 1..args.num_trials |-> <<>>]
                /\ draws' = [i \in 1..args.num_trials |-> <<>>]
                /\ out_borr' = Zeros(pf.num_borrower)
                /\ num_chunks' = nc.v
                /\ base_rng' = SeedFromU64(args.seed)
    /\ UNCHANGED <<pf, args, lock, lock_order, streams, chunks, result>>
    /\ UNCHANGED <<build, tr, mg, bw, pb>>

\* simulate, line 111: one stream identifier, (gen::<u128>() << 1) | 1.
DeriveStream ==
    /\ pc = "streams"
    /\ Len(streams) < num_chunks
    /\ LET g == GenU128(base_rng)
       IN  /\ streams' = Append(streams, (2 * g.out + 1) % Modulus)
           /\ base_rng' = g.rng
    /\ UNCHANGED <<pf, args, pc, out, out_writers, draws, out_borr, lock,
                   lock_order, num_chunks, chunks, result>>
    /\ UNCHANGED <<build, tr, mg, bw, pb>>

\* simulate, line 114: the parallel loop starts over the zipped items.
Dispatch ==
    /\ pc = "streams"
    /\ Len(streams) = num_chunks
    /\ chunks' = ZipItems(args.num_trials, args.chunk_size, Len(streams))
    /\ pc' = "par"
    /\ UNCHANGED <<pf, args, out, out_writers, draws, out_borr, lock,
                   lock_order, num_chunks, base_rng, streams, result>>
    /\ UNCHANGED <<build, tr, mg, bw, pb>>

\* The closure, lines 115-118: the chunk's generator and local accumulator.
ChunkStart(c) ==
    /\ pc = "par"
    /\ chunks[c].pc = "idle"
    /\ chunks' = [chunks EXCEPT ![c].pc = "trials",
                                ![c].rng = PcgNew(args.seed, ChunkStream(c)),
                                ![c].loc_borr = Zeros(pf.num_borrower)]
    /\ UNCHANGED <<pf, args, pc, out, out_writers, draws, out_borr, lock,
                   lock_order, num_chunks, base_rng, streams, result>>
    /\ UNCHANGED <<build, tr, mg, bw, pb>>

\* The closure, lines 120-124: one iteration of the loop over the chunk.
ChunkTrial(c) ==
    /\ pc = "par"
    /\ chunks[c].pc = "trials"
    /\ chunks[c].next < chunks[c].hi
    /\ \E t \in {trial(pf, chunks[c].rng)} :
       LET s == chunks[c].next + 1
       IN  IF t.pc = "panic"
           THEN /\ chunks' = [chunks EXCEPT ![c].pc = "panicked",
                                            ![c].rng = t.rng]
                /\ draws' = [draws EXCEPT ![s] = t.log]
                /\ UNCHANGED <<out, out_writers>>
           ELSE /\ out' = [out EXCEPT ![s] = SumSeq(t.out_borr)]
                /\ out_writers' = [out_writers EXCEPT ![s] = Append(@, c)]
                /\ draws' = [draws EXCEPT ![s] = t.log]
                /\ chunks' = [chunks EXCEPT
                                 ![c].rng = t.rng,
                                 ![c].loc_borr = VecAdd(@, t.out_borr),
                                 ![c].next = @ + 1]
    /\ UNCHANGED <<pf, args, pc, out_borr, lock, lock_order, num_chunks,
                   base_rng, streams, result>>
    /\ UNCHANGED <<build, tr, mg, bw, pb>>

\* The closure, line 127: out_borr.lock().unwrap().
ChunkLock(c) ==
    /\ pc = "par"
    /\ chunks[c].pc = "trials"
    /\ chunks[c].next = chunks[c].hi
    /\ MutexFree(lock)
    /\ lock' = c
    /\ lock_order' = Append(lock_order, c)
    /\ chunks' = [chunks EXCEPT ![c].pc = "locked"]
    /\ UNCHANGED <<pf, args, pc, out, out_writers, draws, out_borr,
                   num_chunks, base_rng, streams, result>>
    /\ UNCHANGED <<build, tr, mg, bw, pb>>

\* The closure, line 128: *share += &loc_borr reads the shared total ...
ChunkRead(c) ==
    /\ pc = "par"
    /\ chunks[c].pc = "locked"
    /\ chunks' = [chunks EXCEPT ![c].pc = "adding", ![c].tmp = out_borr]
    /\ UNCHANGED <<pf, args, pc, out, out_writers, draws, out_borr, lock,
                   lock_order, num_chunks, base_rng, streams, result>>
    /\ UNCHANGED <<build, tr, mg, bw, pb>>

\* ... and writes the sum back; the guard is dropped as the closure ends
\* (line 129).
ChunkWrite(c) ==
    /\ pc = "par"
    /\ chunks[c].pc = "adding"
    /\ out_borr' = VecAdd(chunks[c].tmp, chunks[c].loc_borr)
    /\ lock' = 0
    /\ chunks' = [chunks EXCEPT ![c].pc = "done"]
    /\ UNCHANGED <<pf, args, pc, out, out_writers, draws, lock_order,
                   num_chunks, base_rng, streams, result>>
    /\ UNCHANGED <<build, tr, mg, bw, pb>>

\* for_each returns (line 129).
Join ==
    /\ pc = "par"
    /\ ForEachDone
    /\ pc' = "divide"
    /\ UNCHANGED <<pf, args, out, out_writers, draws, out_borr, lock,
                   lock_order, num_chunks, base_rng, streams, chunks, result>>
    /\ UNCHANGED <<build, tr, mg, bw, pb>>

\* for_each resumes the panic of an item in the caller: simulate unwinds.
JoinPanic ==
    /\ pc = "par"
    /\ ForEachPanicked
    /\ pc' = "aborted"
    /\ UNCHANGED <<pf, args, out, out_writers, draws, out_borr, lock,
                   lock_order, num_chunks, base_rng, streams, chunks, result>>
    /\ UNCHANGED <<build, tr, mg, bw, pb>>

\* simulate, lines 132-136: el = out_borr / num_trials, return (out, el).
Divide ==
    /\ pc = "divide"
    /\ result' = [returned |-> TRUE,
                  out |-> out,
                  el |-> [i \in 1..Len(out_borr) |->
                             XDiv(out_borr[i], ToF64(args.num_trials))]]
    /\ pc' = "returned"
    /\ UNCHANGED <<pf, args, out, out_writers, draws, out_borr, lock,
                   lock_order, num_chunks, base_rng, streams, chunks>>
    /\ UNCHANGED <<build, tr, mg, bw, pb>>

\* ------------------------------------------------------------- inputs
RECURSIVE AddAll(_, _)
\* The borrower after add_exposure of each exposure of exps in turn.
AddAll(b, exps) ==
    IF exps = <<>> THEN b
    ELSE AddAll(add_exposure(b, ExposureNew(exps[1])).b, Tail(exps))

\* Fully systematic (rho = 1), three classes, losses 0, 0.01 and 163.84.
BorrSystematic(w) ==
    AddAll(BorrowerNew(w, 0, One, 0, <<30, 40, 30>>), << <<16384, 16383, 0>> >>)

\* Fully idiosyncratic (rho = 0, eps = 0), two classes, the exposures of the
\* aggregation scenario.
BorrIdio(w) ==
    AddAll(BorrowerNew(w, 0, 0, 0, <<90, 10>>),
           << <<F(100), F(80)>>, <<F(50), F(40)>> >>)

\* Mixed dependence, a class of probability zero (two equal thresholds).
BorrMixed(w) ==
    AddAll(BorrowerNew(w, 1, 50, 50, <<50, 0, 50>>), << <<F(12), F(10), F(4)>> >>)

\* A weight so small that its square underflows: the norm is 0.
BorrTiny ==
    AddAll(BorrowerNew(<<1>>, 0, One, 0, <<50, 50>>), << <<F(10), F(2)>> >>)

\* One rating class and a zero weight vector.
BorrSingle == AddAll(BorrowerNew(<<0>>, 0, One, 0, <<100>>), << <<F(5)>> >>)

RECURSIVE Group(_)
\* The risk group holding the borrowers bs, added in order.
Group(bs) ==
    IF bs = <<>> THEN RiskGroupNew
    ELSE add_borrower(Group(SubSeq(bs, 1, Len(bs) - 1)), bs[Len(bs)])

RECURSIVE Built(_, _)
\* The portfolio after add_risk_group of each group of gs in turn.
Built(p, gs) ==
    IF gs = <<>> THEN p ELSE Built(add_risk_group(p, gs[1]), Tail(gs))

\* Fully group-driven (rho = 0, eps = 1), three classes, current class 1,
\* losses 163.84, 0 and 0.01.
BorrGroup(w) ==
    AddAll(BorrowerNew(w, 1, 0, One, <<30, 40, 30>>), << <<0, 16384, 16383>> >>)

PfA == Built(PortfolioNew(<< <<F(4)>> >>), << Group(<<BorrGroup(<<One>>)>>) >>)

PfB == Built(PortfolioNew(<< <<One, 0>>, <<0, One>> >>),
             << Group(<<BorrIdio(<<One, 0>>)>>),
                Group(<<BorrMixed(<<One, One>>), BorrSystematic(<<0, One>>)>>) >>)

PfC == Built(PortfolioNew(<< <<One>> >>),
             << Group(<<BorrSystematic(<<One>>), BorrTiny>>),
                Group(<<BorrSingle>>) >>)

Portfolios == {PfA, PfB, PfC}

ChunkSizes == (1..MaxChunk) \cup {MaxUsize}

SimArgs == [num_trials : 0..MaxTrials, chunk_size : ChunkSizes, seed : 0..MaxSeed]

\* Migration probabilities: multiples of 0.1 that sum to 1.
ProbSteps == {0, 10, 40, 50, 90, 100}

RECURSIVE SumInt(_)
SumInt(s) == IF s = <<>> THEN 0 ELSE s[1] + SumInt(Tail(s))

PMigs == {p \in UNION {[1..k -> ProbSteps] : k \in 1..MaxRatings} : SumInt(p) = 100}

\* Standardized asset values handed to migration.
ZInputs == {NaN, NegInf, PosInf, 0 - 200, 0 - 128, 0 - 25, 0, 1, 128, 200}

\* Valuation vectors of the exposures handed to add_exposure.
ExposureInputs ==
    {<<F(100), F(80)>>, <<F(50), F(40)>>, <<16384, 1>>, <<1, 16384>>,
     <<F(12), F(10), F(4)>>, <<F(7)>>}

\* Stream identifiers of the trials run while a portfolio is built.
TrialStreams == {11, 19}

\* Stream identifiers handed to Pcg64::new.
StreamInputs == {s \in 0..(Modulus - 1) : s % 2 = 1}

\* ------------------------------------------------------------- harnesses
\* tr: one Portfolio::trial call stepped through: [rng0, t] with rng0 the
\*     generator on entry and t the frame.
\* mg: Borrower::migration calls on one borrower: [b, calls], each call
\*     [z, res].
\* bw: Borrower::add_exposure calls on one borrower: [b, ok, n]; ok turns
\*     FALSE when a call panics, n counts the calls.
\* pb: Portfolio::add_risk_group calls on one portfolio: [p, added, calls,
\*     last]; added lists the groups as they were passed to the calls that
\*     returned, calls counts all calls, last is the latest Portfolio::trial
\*     on p: [pc, p, rng0, t], p being the portfolio the trial ran on.
vars == <<build, pf, args, pc, out, out_writers, draws, out_borr, lock,
          lock_order, num_chunks, base_rng, streams, chunks, result, tr, mg, bw,
          pb>>

SimOff ==
    /\ args = [num_trials |-> 0, chunk_size |-> 1, seed |-> 0]
    /\ pc = "off"
    /\ out = <<>> /\ out_writers = <<>> /\ draws = <<>> /\ out_borr = <<>>
    /\ lock = 0 /\ lock_order = <<>> /\ num_chunks = 0
    /\ base_rng = [state |-> 0, increment |-> 0]
    /\ streams = <<>> /\ chunks = <<>> /\ result = NoResult

TrOff == tr = [rng0 |-> [state |-> 0, increment |-> 0], t |-> [pc |-> "off"]]
MgOff == mg = [b |-> [c_mig |-> <<>>], calls |-> <<>>]
BwOff == bw = [b |-> [rating |-> 0], ok |-> TRUE, n |-> 0]
PbOff == pb = [p |-> [risk_group |-> <<>>], added |-> <<>>, calls |-> 0,
               last |-> [pc |-> "none"]]

\* ---- simulate
Init ==
    /\ build \in Builds
    /\ pf \in Portfolios
    /\ args \in SimArgs
    /\ pc = "entry"
    /\ out = <<>> /\ out_writers = <<>> /\ draws = <<>> /\ out_borr = <<>>
    /\ lock = 0 /\ lock_order = <<>> /\ num_chunks = 0
    /\ base_rng = [state |-> 0, increment |-> 0]
    /\ streams = <<>> /\ chunks = <<>> /\ result = NoResult
    /\ TrOff /\ MgOff /\ BwOff /\ PbOff

Next ==
    \/ SimulateEntry
    \/ DeriveStream
    \/ Dispatch
    \/ \E c \in DOMAIN chunks : ChunkStart(c)
    \/ \E c \in DOMAIN chunks : ChunkTrial(c)
    \/ \E c \in DOMAIN chunks : ChunkLock(c)
    \/ \E c \in DOMAIN chunks : ChunkRead(c)
    \/ \E c \in DOMAIN chunks : ChunkWrite(c)
    \/ Join
    \/ JoinPanic
    \/ Divide

Spec == Init /\ [][Next]_vars

\* ---- one trial
InitTrial ==
    /\ build \in Builds
    /\ pf \in Portfolios
    /\ SimOff /\ MgOff /\ BwOff /\ PbOff
    /\ \E seed \in 0..MaxSeed, stream \in StreamInputs :
          LET rng == PcgNew(seed, stream)
          IN  tr = [rng0 |-> rng, t |-> TrialEntry(pf, rng)]

\* Lines 64-68: the systematic factors.
TrialSystematic ==
    /\ tr.t.pc = "sys"
    /\ tr' = [tr EXCEPT !.t = TrialStep(pf, tr.t)]
    /\ UNCHANGED <<build, mg, bw, pb>>
    /\ UNCHANGED simVars

\* Lines 72-74: the head of the risk-group loop.
TrialGroup ==
    /\ tr.t.pc = "group"
    /\ tr' = [tr EXCEPT !.t = TrialStep(pf, tr.t)]
    /\ UNCHANGED <<build, mg, bw, pb>>
    /\ UNCHANGED simVars

\* Lines 76-93: the head and body of the borrower loop.
TrialBorrower ==
    /\ tr.t.pc = "borr"
    /\ tr' = [tr EXCEPT !.t = TrialStep(pf, tr.t)]
    /\ UNCHANGED <<build, mg, bw, pb>>
    /\ UNCHANGED simVars

NextTrial == TrialSystematic \/ TrialGroup \/ TrialBorrower

SpecTrial == InitTrial /\ [][NextTrial]_vars

\* ---- migration
InitMigration ==
    /\ build \in Builds
    /\ pf = PfA
    /\ SimOff /\ TrOff /\ BwOff /\ PbOff
    /\ \E p \in PMigs : mg = [b |-> BorrowerNew(<<One>>, 0, One, 0, p),
                              calls |-> <<>>]

\* One Borrower::migration(z) call.
Migrate ==
    /\ Len(mg.calls) < MaxCalls
    /\ \E z \in ZInputs :
          mg' = [mg EXCEPT !.calls = Append(@, [z |-> z,
                                                res |-> migration(mg.b, z)])]
    /\ UNCHANGED <<build, tr, bw, pb>>
    /\ UNCHANGED simVars

NextMigration == Migrate

SpecMigration == InitMigration /\ [][NextMigration]_vars

\* ---- add_exposure
InitBorrower ==
    /\ build \in Builds
    /\ pf = PfA
    /\ SimOff /\ TrOff /\ MgOff /\ PbOff
    /\ \E p \in PMigs : \E r \in 0..Len(p) :
          bw = [b |-> BorrowerNew(<<One>>, r, One, 0, p), ok |-> TRUE, n |-> 0]

\* One Borrower::add_exposure call; a panic ends the borrower's use.
AddExposure ==
    /\ bw.ok
    /\ bw.n < MaxExposures
    /\ \E v \in ExposureInputs :
          LET r == add_exposure(bw.b, ExposureNew(v))
          IN  bw' = [b |-> r.b, ok |-> r.ok, n |-> bw.n + 1]
    /\ UNCHANGED <<build, tr, mg, pb>>
    /\ UNCHANGED simVars

NextBorrower == AddExposure

SpecBorrower == InitBorrower /\ [][NextBorrower]_vars

\* ---- add_risk_group
\* Covariance matrices handed to Portfolio::new.
CovInputs == {<< <<F(4)>> >>, << <<One>> >>}

\* Risk groups handed to add_risk_group: borrowers fresh from Borrower::new
\* and add_exposure, an empty group, a group whose norms were set before
\* with another covariance matrix, and a group of the wrong dimension.
GroupInputs ==
    {Group(<<BorrGroup(<<One>>)>>),
     Group(<<BorrSystematic(<<One>>), BorrTiny>>),
     RiskGroupNew,
     RiskGroupSetNorm(Group(<<BorrSystematic(<<One>>)>>), << <<F(9)>> >>),
     Group(<<BorrIdio(<<One, 0>>)>>)}

InitPortfolio ==
    /\ build \in Builds
    /\ pf = PfA
    /\ SimOff /\ TrOff /\ MgOff /\ BwOff
    /\ \E cov \in CovInputs :
          pb = [p |-> PortfolioNew(cov), added |-> <<>>, calls |-> 0,
                last |-> [pc |-> "none"]]

\* One Portfolio::add_risk_group call; a call that panics in set_norm
\* leaves the portfolio as it was.
AddRiskGroup ==
    /\ pb.calls < MaxGroups
    /\ \E rg \in GroupInputs :
          IF SetNormPanics(rg, pb.p.cov)
          THEN pb' = [pb EXCEPT !.calls = @ + 1]
          ELSE pb' = [pb EXCEPT !.p = add_risk_group(pb.p, rg),
                                !.added = Append(@, rg),
                                !.calls = @ + 1]
    /\ UNCHANGED <<build, tr, mg, bw>>
    /\ UNCHANGED simVars

\* One Portfolio::trial call on the portfolio as built so far.
PortfolioTrial ==
    /\ \E stream \in TrialStreams :
          LET rng == PcgNew(0, stream)
          IN  pb' = [pb EXCEPT !.last = [pc |-> "ran", p |-> pb.p,
                                         rng0 |-> rng,
                                         t |-> trial(pb.p, rng)]]
    /\ UNCHANGED <<build, tr, mg, bw>>
    /\ UNCHANGED simVars

NextPortfolio == AddRiskGroup \/ PortfolioTrial

SpecPortfolio == InitPortfolio /\ [][NextPortfolio]_vars

\* ============================================================= properties

\* ---- Borrower::migration (SpecMigration)

\* The thresholds of a borrower are non-decreasing.
NonDecreasing(c) == \A i \in 1..(Len(c) - 1) : c[i] <= c[i + 1]

\* The smallest 0-based index i with z <= c[i], or Len(c) (the last rating
\* index) when z exceeds every threshold.
SmallestIndex(c, z) ==
    IF \E i \in 1..Len(c) : z <= c[i]
    THEN (CHOOSE i \in 1..Len(c) :
             z <= c[i] /\ \A j \in 1..(i - 1) : ~(z <= c[j])) - 1
    ELSE Len(c)

\* C6: for non-decreasing thresholds (equal neighbours included) and every
\* finite z, migration(z) returns the smallest index i with z <= threshold[i],
\* and the last rating index when z exceeds all thresholds.
C6_SmallestIndex ==
    \A i \in 1..Len(mg.calls) :
        (NonDecreasing(mg.b.c_mig) /\ IsFinite(mg.calls[i].z)) =>
            /\ mg.calls[i].res.ok
            /\ mg.calls[i].res.idx = SmallestIndex(mg.b.c_mig, mg.calls[i].z)

\* C7: migration is monotonic: for non-decreasing thresholds and finite
\* z1 <= z2, migration(z1) <= migration(z2).
C7_Monotonic ==
    \A i, j \in 1..Len(mg.calls) :
        ( /\ NonDecreasing(mg.b.c_mig)
          /\ IsFinite(mg.calls[i].z) /\ IsFinite(mg.calls[j].z)
          /\ mg.calls[i].z <= mg.calls[j].z ) =>
            /\ mg.calls[i].res.ok /\ mg.calls[j].res.ok
            /\ mg.calls[i].res.idx <= mg.calls[j].res.idx

\* Two calls with z1 < z2 on a borrower with two equal thresholds, the first
\* at the repeated threshold, that return different ratings.
C7_Witness ==
    /\ Len(mg.calls) = 2
    /\ mg.b.c_mig = <<0, 0>>
    /\ mg.calls[1].z = 0 /\ mg.calls[2].z = 128
    /\ mg.calls[1].res.idx < mg.calls[2].res.idx

\* C9: every non-finite z (NaN, +infinity, -infinity) makes migration fail
\* instead of returning a rating index, whatever the number of rating classes.
C9_NonFiniteFatal ==
    \A i \in 1..Len(mg.calls) :
        ~IsFinite(mg.calls[i].z) => ~mg.calls[i].res.ok

\* ---- Borrower::add_exposure (SpecBorrower)

RECURSIVE ValuationSum(_, _)
\* The sum, in the order added, of the exposures' valuations at 1-based
\* rating position i.
ValuationSum(exps, i) ==
    IF exps = <<>> THEN 0
    ELSE XAdd(ValuationSum(SubSeq(exps, 1, Len(exps) - 1), i),
              exps[Len(exps)].valuation[i])

\* C8: after successful add_exposure calls on a borrower with k classes and
\* current rating r < k, the valuation at each rating is the (f64) sum of the
\* added exposures' valuations there and the loss at rating i is
\* valuation[r] - valuation[i], 0 at the current rating; exposures [100, 80]
\* and [50, 40] at rating 0 give valuation [150, 120] and loss [0, 30].
C8_ExposureAggregation ==
    (bw.ok /\ bw.n > 0 /\ bw.b.rating < Len(bw.b.p_mig)) =>
        /\ Len(bw.b.exposures) = bw.n
        /\ \A i \in 1..Len(bw.b.p_mig) :
              /\ bw.b.valuations[i] = ValuationSum(bw.b.exposures, i)
              /\ bw.b.losses[i] =
                    XSub(bw.b.valuations[bw.b.rating + 1], bw.b.valuations[i])
        /\ bw.b.losses[bw.b.rating + 1] = 0
        /\ ( /\ bw.b.rating = 0
             /\ bw.b.exposures = <<ExposureNew(<<F(100), F(80)>>),
                                   ExposureNew(<<F(50), F(40)>>)>> ) =>
              /\ bw.b.valuations = <<F(150), F(120)>>
              /\ bw.b.losses = <<0, F(30)>>

\* The aggregation scenario: [100, 80] then [50, 40] added at rating 0.
C8_Witness ==
    /\ bw.ok /\ bw.n = 2 /\ bw.b.rating = 0
    /\ bw.b.exposures = <<ExposureNew(<<F(100), F(80)>>),
                          ExposureNew(<<F(50), F(40)>>)>>
    /\ bw.b.losses = <<0, F(30)>>

\* ---- Portfolio::trial (SpecTrial)

RECURSIVE NthNormal(_, _)
\* The i-th (1-based) normal variate a generator in state rng produces.
NthNormal(rng, i) ==
    IF i = 1 THEN NextNormal(rng).out ELSE NthNormal(NextNormal(rng).rng, i - 1)

\* The number of borrowers in the groups before group g.
BorrowersBefore(p, g) ==
    SumInt([h \in 1..(g - 1) |-> Len(p.risk_group[h].borrower)])

\* The 1-based position, among the draws of one trial, of the draw e2 of
\* group g: after the systematic draws and the draws of the groups before it.
GroupDrawPos(p, g) == p.risk_factors + (g - 1) + BorrowersBefore(p, g) + 1

\* The purpose each draw of a trial must serve, in order.
ExpectedRoles(p) ==
    [i \in 1..(p.risk_factors + Len(p.risk_group) + p.num_borrower) |->
        IF i <= p.risk_factors THEN [kind |-> "sys", g |-> 0, b |-> 0]
        ELSE LET g == CHOOSE h \in 1..Len(p.risk_group) :
                          /\ GroupDrawPos(p, h) <= i
                          /\ i <= GroupDrawPos(p, h) + Len(p.risk_group[h].borrower)
             IN  IF i = GroupDrawPos(p, g)
                 THEN [kind |-> "e2", g |-> g, b |-> 0]
                 ELSE [kind |-> "e1", g |-> g, b |-> i - GroupDrawPos(p, g)]]

\* The loss of borrower b of group g in a trial whose generator starts at rng,
\* taking each draw from its position in the fixed order.
PositionalLoss(p, rng, g, b) ==
    LET borr == p.risk_group[g].borrower[b]
        rf == MatVec(p.lower, [i \in 1..p.risk_factors |-> NthNormal(rng, i)])
        e2 == NthNormal(rng, GroupDrawPos(p, g))
        e1 == NthNormal(rng, GroupDrawPos(p, g) + b)
        z == asset_value(borr, risk_factor(borr, rf), e1, e2)
    IN  get_loss(borr, migration(borr, z).idx).loss

\* C5: a trial draws n systematic factors, then per risk group in insertion
\* order one e2 followed by one e1 per borrower in insertion order; a trial
\* that returns drew exactly n + groups + borrowers variates, and wrote the
\* loss of the j-th borrower in (group, borrower) order to position j, each
\* position exactly once.
C5_DrawOrder ==
    (tr.t.pc \in {"sys", "group", "borr", "return", "panic"}) =>
        /\ Len(tr.t.log) <= Len(ExpectedRoles(pf))
        /\ \A i \in 1..Len(tr.t.log) :
              /\ tr.t.log[i].kind = ExpectedRoles(pf)[i].kind
              /\ tr.t.log[i].g = ExpectedRoles(pf)[i].g
              /\ tr.t.log[i].b = ExpectedRoles(pf)[i].b
              /\ tr.t.log[i].v = NthNormal(tr.rng0, i)
        /\ (tr.t.pc = "return") =>
              /\ Len(tr.t.log) =
                    pf.risk_factors + Len(pf.risk_group) + pf.num_borrower
              /\ \A j \in 1..pf.num_borrower : tr.t.writes[j] = 1
              /\ \A g \in 1..Len(pf.risk_group) :
                    \A b \in 1..Len(pf.risk_group[g].borrower) :
                       tr.t.out_borr[BorrowersBefore(pf, g) + b] =
                          PositionalLoss(pf, tr.rng0, g, b)

\* A trial of the two-factor, two-group, three-borrower portfolio returned
\* with a different loss at every position.
C5_Witness ==
    /\ tr.t.pc = "return"
    /\ pf = PfB
    /\ Len(tr.t.log) = 7
    /\ Cardinality({tr.t.out_borr[j] : j \in 1..3}) = 3

\* ---- Portfolio::simulate (Spec)

\* ceil(n / d) over the unbounded integers.
CeilDiv(n, d) == (n + d - 1) \div d

\* The chunk (1-based) that owns slot s (1-based) of the output vector.
ChunkOf(s) == ((s - 1) \div args.chunk_size) + 1

RECURSIVE BaseAfter(_, _)
\* The base generator seeded with seed after i stream identifiers were drawn.
BaseAfter(seed, i) ==
    IF i = 0 THEN SeedFromU64(seed) ELSE GenU128(BaseAfter(seed, i - 1)).rng

\* The i-th (1-based) stream identifier derived from seed.
StreamAt(seed, i) == (2 * GenU128(BaseAfter(seed, i - 1)).out + 1) % Modulus

\* The number of draws the trials of slot s's chunk took before slot s.
DrawsBefore(s) ==
    SumInt([i \in 1..((s - 1) % args.chunk_size) |->
               Len(draws[s - ((s - 1) % args.chunk_size) + i - 1])])

\* C4: the stream identifiers are derived in chunk-index order from the base
\* generator seeded with seed, all of them before any worker starts; the
\* draws of the trial in slot s are those of the generator of (seed, index of
\* the chunk owning s), continuing where the chunk's previous trial stopped,
\* whatever the order in which the workers run.
C4_DrawsDetermined ==
    (pc \in {"streams", "par", "divide", "returned", "aborted"}) =>
        /\ \A i \in 1..Len(streams) : streams[i] = StreamAt(args.seed, i)
        /\ (\E c \in DOMAIN chunks : chunks[c].pc # "idle") =>
              Len(streams) = num_chunks
        /\ \A s \in 1..Len(draws) : \A i \in 1..Len(draws[s]) :
              draws[s][i].v =
                 NthNormal(PcgNew(args.seed, StreamAt(args.seed, ChunkOf(s))),
                           DrawsBefore(s) + i)

\* Three trials in chunks of two returned, the second chunk having started
\* and locked before the first.
C4_Witness ==
    /\ pc = "returned"
    /\ args.num_trials = 3 /\ args.chunk_size = 2
    /\ lock_order = <<2, 1>>
    /\ \A s \in 1..3 : draws[s] # <<>>
    /\ draws[1] # draws[3]

\* The generator of chunk c's stream before the trial of slot s (0-based).
RECURSIVE RngAtSlot(_, _)
RngAtSlot(c, s) ==
    IF s = chunks[c].lo THEN PcgNew(args.seed, StreamAt(args.seed, c))
    ELSE trial(pf, RngAtSlot(c, s - 1)).rng

\* The per-borrower losses of the trial of slot s (0-based) of chunk c.
TrialLosses(c, s) == trial(pf, RngAtSlot(c, s)).out_borr

RECURSIVE LocalSum(_, _)
\* Chunk c's local accumulator after its trials of the slots below s.
LocalSum(c, s) ==
    IF s = chunks[c].lo THEN Zeros(pf.num_borrower)
    ELSE VecAdd(LocalSum(c, s - 1), TrialLosses(c, s - 1))

RECURSIVE SharedSum(_)
\* The shared accumulator after the chunks of order added their local
\* accumulators one after the other.
SharedSum(order) ==
    IF order = <<>> THEN Zeros(pf.num_borrower)
    ELSE VecAdd(SharedSum(SubSeq(order, 1, Len(order) - 1)),
                LocalSum(order[Len(order)], chunks[order[Len(order)]].hi))

\* What simulate returns when the chunks add their accumulators in
\* chunk-index order.
ReferenceResult ==
    [returned |-> TRUE,
     out |-> [s \in 1..args.num_trials |->
                 IF ChunkOf(s) \in DOMAIN chunks
                 THEN SumSeq(TrialLosses(ChunkOf(s), s - 1)) ELSE 0],
     el |-> LET tot == SharedSum([c \in 1..Len(chunks) |-> c])
            IN  [i \in 1..pf.num_borrower |->
                    XDiv(tot[i], ToF64(args.num_trials))]]

\* C1: the result of simulate is a function of the portfolio, seed,
\* num_trials and chunk_size alone: every schedule of the chunk workers
\* returns what the schedule in chunk-index order returns, bit for bit, in
\* both the per-trial vector and the per-borrower mean vector.
C1_Deterministic ==
    (pc = "returned") => result = ReferenceResult

\* C3: simulate cuts the slots 0..num_trials-1 into ceil(num_trials /
\* chunk_size) contiguous chunks of at most chunk_size slots, each paired with
\* one derived stream, and every slot is written exactly once, by the chunk
\* that owns it; simulate fails only when a trial fails.
C3_Partition ==
    /\ (pc = "aborted") => \E c \in DOMAIN chunks : chunks[c].pc = "panicked"
    /\ (pc \in {"divide", "returned"}) =>
          /\ Len(chunks) = CeilDiv(args.num_trials, args.chunk_size)
          /\ Len(streams) = Len(chunks)
          /\ Len(out) = args.num_trials
          /\ \A c \in DOMAIN chunks :
                /\ chunks[c].lo = (c - 1) * args.chunk_size
                /\ chunks[c].hi = Min(c * args.chunk_size, args.num_trials)
                /\ chunks[c].hi - chunks[c].lo \in 1..args.chunk_size
          /\ \A s \in 1..args.num_trials : out_writers[s] = <<ChunkOf(s)>>

\* C2: when the division happens every chunk has completed, each of the
\* ceil(num_trials / chunk_size) chunks took the lock exactly once, and the
\* shared total is the sum of the local sums of all of them (no update
\* lost), that is of the per-borrower losses of all num_trials trials.
C2_LockOncePerChunk ==
    (pc \in {"divide", "returned"}) =>
        /\ ForEachDone
        /\ lock = 0
        /\ Len(lock_order) = CeilDiv(args.num_trials, args.chunk_size)
        /\ \A c \in 1..CeilDiv(args.num_trials, args.chunk_size) :
              Cardinality({i \in 1..Len(lock_order) : lock_order[i] = c}) = 1
        /\ \A s \in 1..args.num_trials :
              \E i \in 1..Len(lock_order) :
                 /\ chunks[lock_order[i]].lo < s
                 /\ s <= chunks[lock_order[i]].hi
        /\ out_borr = SharedSum(lock_order)

\* C10: once a trial of any chunk has failed, simulate never reaches the
\* division and never returns a result, whatever the other chunks computed
\* or added to the shared accumulator; the failed chunk is never run again
\* and adds nothing.
C10_AbortNoResult ==
    /\ [](  (\E c \in DOMAIN chunks : chunks[c].pc = "panicked") =>
               /\ pc \in {"par", "aborted"}
               /\ result = NoResult
               /\ \A c \in DOMAIN chunks :
                     chunks[c].pc = "panicked" =>
                        \A i \in 1..Len(lock_order) : lock_order[i] # c  )
    /\ [][ \A c \in DOMAIN chunks :
              chunks[c].pc = "panicked" =>
                 /\ c \in DOMAIN chunks'
                 /\ chunks'[c] = chunks[c]
                 /\ pc' \in {"par", "aborted"} ]_vars

\* simulate aborted: one chunk failed in a trial while another had completed
\* and added a non-zero local sum to the shared accumulator.
C10_Witness ==
    /\ pc = "aborted"
    /\ \E c, d \in DOMAIN chunks :
          /\ chunks[c].pc = "panicked"
          /\ chunks[d].pc = "done"
          /\ \E i \in 1..Len(chunks[d].loc_borr) : chunks[d].loc_borr[i] # 0
    /\ \E i \in 1..Len(out_borr) : out_borr[i] # 0
    /\ result = NoResult

\* ---- Portfolio::add_risk_group (SpecPortfolio)

\* The norm set_norm gives a borrower under covariance matrix cov.
NormUnder(b, cov) ==
    XSqrt(Dot(b.risk_factor_weights, MatVec(cov, b.risk_factor_weights)))

\* The portfolio p with every borrower's norm set anew from p's covariance.
Renormed(p) ==
    [p EXCEPT !.risk_group =
        [g \in 1..Len(p.risk_group) |->
            [borrower |->
                [b \in 1..Len(p.risk_group[g].borrower) |->
                    [p.risk_group[g].borrower[b] EXCEPT
                        !.norm = NormUnder(p.risk_group[g].borrower[b], p.cov)]]]]]

\* C11: after any sequence of add_risk_group calls num_borrower is the sum of
\* the borrower counts of the appended groups, the groups are stored in call
\* order, and every stored borrower is the borrower passed with its norm set
\* from the portfolio's covariance, so that a trial on the portfolio is a
\* trial in which every borrower's norm was set.
C11_GroupsNormed ==
    /\ pb.p.num_borrower =
          SumInt([g \in 1..Len(pb.added) |-> Len(pb.added[g].borrower)])
    /\ Len(pb.p.risk_group) = Len(pb.added)
    /\ \A g \in 1..Len(pb.added) :
          /\ Len(pb.p.risk_group[g].borrower) = Len(pb.added[g].borrower)
          /\ \A b \in 1..Len(pb.added[g].borrower) :
                pb.p.risk_group[g].borrower[b] =
                   [pb.added[g].borrower[b] EXCEPT
                       !.norm = NormUnder(pb.added[g].borrower[b], pb.p.cov)]
    /\ (pb.last.pc = "ran") =>
          pb.last.t = trial(Renormed(pb.last.p), pb.last.rng0)

\* Two groups were appended, the first with fresh borrowers (norm unset), the
\* second with a norm set before under another covariance; both norms were
\* set from the portfolio's covariance, and a trial on the portfolio
\* returned.
C11_Witness ==
    /\ Len(pb.added) = 2
    /\ pb.p.num_borrower = 3
    /\ IsNaN(pb.added[1].borrower[1].norm)
    /\ pb.added[2].borrower[1].norm = F(3)
    /\ pb.p.risk_group[1].borrower[1].norm = F(2)
    /\ pb.p.risk_group[2].borrower[1].norm = F(2)
    /\ pb.last.pc = "ran"
    /\ pb.last.p = pb.p
    /\ pb.last.t.pc = "return"

\* ---- migration's range inside Portfolio::trial (SpecTrial)

\* The standardized asset value of borrower b of group g in a trial whose
\* generator starts at rng, each draw taken from its position.
PositionalZ(p, rng, g, b) ==
    LET borr == p.risk_group[g].borrower[b]
        rf == MatVec(p.lower, [i \in 1..p.risk_factors |-> NthNormal(rng, i)])
    IN  asset_value(borr, risk_factor(borr, rf),
                    NthNormal(rng, GroupDrawPos(p, g) + b),
                    NthNormal(rng, GroupDrawPos(p, g)))

\* The borrowers (g, b) the trial has evaluated so far: those whose draw e1
\* was taken.
Evaluated ==
    {gb \in UNION {{<<g, b>> : b \in 1..Len(pf.risk_group[g].borrower)} :
                      g \in 1..Len(pf.risk_group)} :
        GroupDrawPos(pf, gb[1]) + gb[2] <= Len(tr.t.log)}

\* C12: in a trial, every borrower with k >= 1 rating classes has k-1
\* thresholds and k losses, and for every finite z migration returns an
\* index in 0..k-1 for which get_loss succeeds; a trial fails only at a
\* borrower whose z is not finite.
C12_MigrationInRange ==
    (tr.t.pc \in {"sys", "group", "borr", "return", "panic"}) =>
        /\ \A gb \in Evaluated :
              LET borr == pf.risk_group[gb[1]].borrower[gb[2]]
                  k == Len(borr.p_mig)
                  z == PositionalZ(pf, tr.rng0, gb[1], gb[2])
                  r == migration(borr, z)
              IN  (k >= 1 /\ IsFinite(z)) =>
                     /\ Len(borr.c_mig) = k - 1
                     /\ Len(borr.losses) = k
                     /\ r.ok
                     /\ r.idx \in 0..(k - 1)
                     /\ get_loss(borr, r.idx).ok
        /\ (tr.t.pc = "panic") =>
              \E gb \in Evaluated :
                 /\ GroupDrawPos(pf, gb[1]) + gb[2] = Len(tr.t.log)
                 /\ ~IsFinite(PositionalZ(pf, tr.rng0, gb[1], gb[2]))

\* A trial returned in which a borrower with three rating classes and a
\* finite z migrated to the last class, and its loss there was written.
C12_Witness ==
    /\ tr.t.pc = "return"
    /\ \E gb \in Evaluated :
          LET borr == pf.risk_group[gb[1]].borrower[gb[2]]
              z == PositionalZ(pf, tr.rng0, gb[1], gb[2])
          IN  /\ Len(borr.p_mig) = 3
              /\ IsFinite(z)
              /\ migration(borr, z).idx = 2
              /\ tr.t.out_borr[BorrowersBefore(pf, gb[1]) + gb[2]] =
                    borr.losses[3]

====
